---- MODULE Spec2Model ----
(***************************************************************************)
(* Contest code-submission grader of khub: the submit request and its      *)
(* grading flow (routes/submissions.js), the Submission and Contest        *)
(* models with their pre-save hooks, the admin contest operations and the  *)
(* contest leaderboard (routes/contests.js).                               *)
(*                                                                         *)
(* Strings that the code trims or compares are sequences of one-character  *)
(* strings, so that trim() is computed rather than assumed.                *)
(***************************************************************************)
EXTENDS Integers, Sequences, FiniteSets, TLC

\* ------------------------------------------------------------------ bounds
\* number of submit requests that may be in flight together
MaxReq == 2
\* longest test case list of a question
MaxTestCases == 2
\* most questions of a contest under administration
MaxQuestions == 2
\* most submissions scanned by a leaderboard request
MaxSubs == 3

Reqs == 1..MaxReq
Users == {"u1", "u2"}

\* -------------------------------------------------------- program constants
\* questionSchema.timeLimit default (ms)
DefaultTimeLimit == 2000
\* contestSchema.maxAttempts default
DefaultMaxAttempts == 1

WhiteSpace == {" ", "\n", "\t"}

\* ------------------------------------------------------------ pure helpers
RECURSIVE trimStart(_)
trimStart(s) ==
    IF s # <<>> /\ Head(s) \in WhiteSpace THEN trimStart(Tail(s)) ELSE s

RECURSIVE trimEnd(_)
trimEnd(s) ==
    IF s # <<>> /\ s[Len(s)] \in WhiteSpace
    THEN trimEnd(SubSeq(s, 1, Len(s) - 1))
    ELSE s

\* String.prototype.trim
trim(s) == trimEnd(trimStart(s))

RECURSIVE SumOver(_, _)
\* Array.prototype.reduce((t, x) => t + f(x), 0) for a field of the elements
SumOver(seq, field) ==
    IF seq = <<>> THEN 0 ELSE seq[1][field] + SumOver(Tail(seq), field)

\* Math.round((a / b) * 100) for a >= 0, b > 0: halves round up
MathRoundPct(a, b) == (200 * a + b) \div (2 * b)

\* the language -> compilex method table of executeCode
compilexLang == [c |-> "C", cpp |-> "Cpp", java |-> "Java", javascript |-> "node"]

\* callback of compilex.compilePython: data is the invoker's report,
\* executionTime the wall time measured when it arrives
compilePythonCallback(data, executionTime, timeLimit) ==
    IF data.error # ""
    THEN [status |-> "error", error |-> data.error, executionTime |-> executionTime,
          memoryUsed |-> 0, output |-> data.output]
    ELSE IF executionTime > timeLimit
    THEN [status |-> "timeout", error |-> "Time limit exceeded",
          executionTime |-> executionTime, memoryUsed |-> 0, output |-> data.output]
    ELSE [status |-> "success", error |-> "", executionTime |-> executionTime,
          memoryUsed |-> 0, output |-> data.output]

\* callback of compilex[compileMethod] for the other languages
compileMethodCallback(data, executionTime, timeLimit) ==
    IF data.error # ""
    THEN [status |-> "error", error |-> data.error, executionTime |-> executionTime,
          memoryUsed |-> 0, output |-> data.output]
    ELSE IF executionTime > timeLimit
    THEN [status |-> "timeout", error |-> "Time limit exceeded",
          executionTime |-> executionTime, memoryUsed |-> 0, output |-> data.output]
    ELSE [status |-> "success", error |-> "", executionTime |-> executionTime,
          memoryUsed |-> 0, output |-> data.output]

\* executeCode: the Outcome resolved for one invocation
executeCode(language, data, executionTime, timeLimit) ==
    IF language = "python"
    THEN compilePythonCallback(data, executionTime, timeLimit)
    ELSE IF language \notin DOMAIN compilexLang
    THEN [status |-> "error", error |-> "Unsupported language", executionTime |-> 0,
          memoryUsed |-> 0, output |-> <<>>]
    ELSE compileMethodCallback(data, executionTime, timeLimit)

\* as gradeTestCase, comparing the outputs as they are, without trim()
gradeTestCaseUntrimmed(testCase, result) ==
    LET testCaseResult ==
            [testCaseId |-> testCase.id, status |-> "failed",
             executionTime |-> result.executionTime, memoryUsed |-> result.memoryUsed,
             output |-> result.output, error |-> result.error, marksAwarded |-> 0,
             maxMarks |-> testCase.marks, isHidden |-> testCase.isHidden]
    IN  IF result.status = "success" /\ result.output = testCase.expectedOutput
        THEN [testCaseResult EXCEPT !.status = "passed",
                                    !.marksAwarded = testCase.marks]
        ELSE IF result.status = "timeout"
        THEN [testCaseResult EXCEPT !.status = "time_limit_exceeded"]
        ELSE IF result.status = "error"
        THEN [testCaseResult EXCEPT !.status = "runtime_error"]
        ELSE testCaseResult

\* as gradeTestCase, but a timeout of the dispatcher is recorded as a
\* runtime error
gradeTestCaseTimeoutAsError(testCase, result) ==
    LET testCaseResult ==
            [testCaseId |-> testCase.id, status |-> "failed",
             executionTime |-> result.executionTime, memoryUsed |-> result.memoryUsed,
             output |-> result.output, error |-> result.error, marksAwarded |-> 0,
             maxMarks |-> testCase.marks, isHidden |-> testCase.isHidden]
    IN  IF result.status = "success"
           /\ trim(result.output) = trim(testCase.expectedOutput)
        THEN [testCaseResult EXCEPT !.status = "passed",
                                    !.marksAwarded = testCase.marks]
        ELSE IF result.status \in {"timeout", "error"}
        THEN [testCaseResult EXCEPT !.status = "runtime_error"]
        ELSE testCaseResult

\* processSubmission, body of the per-test-case try block: the TestCaseResult
gradeTestCase(testCase, result) ==
    LET testCaseResult ==
            [testCaseId |-> testCase.id, status |-> "failed",
             executionTime |-> result.executionTime, memoryUsed |-> result.memoryUsed,
             output |-> result.output, error |-> result.error, marksAwarded |-> 0,
             maxMarks |-> testCase.marks, isHidden |-> testCase.isHidden]
    IN  IF result.status = "success"
           /\ trim(result.output) = trim(testCase.expectedOutput)
        THEN [testCaseResult EXCEPT !.status = "passed",
                                    !.marksAwarded = testCase.marks]
        ELSE IF result.status = "timeout"
        THEN [testCaseResult EXCEPT !.status = "time_limit_exceeded"]
        ELSE IF result.status = "error"
        THEN [testCaseResult EXCEPT !.status = "runtime_error"]
        ELSE testCaseResult

\* as faultedTestCase, but the result is credited with the test case's marks
faultedTestCaseCredited(testCase, message) ==
    [testCaseId |-> testCase.id, status |-> "runtime_error", executionTime |-> 0,
     memoryUsed |-> 0, output |-> <<>>, error |-> message,
     marksAwarded |-> testCase.marks, maxMarks |-> testCase.marks,
     isHidden |-> testCase.isHidden]

\* processSubmission, per-test-case catch block
faultedTestCase(testCase, message) ==
    [testCaseId |-> testCase.id, status |-> "runtime_error", executionTime |-> 0,
     memoryUsed |-> 0, output |-> <<>>, error |-> message, marksAwarded |-> 0,
     maxMarks |-> testCase.marks, isHidden |-> testCase.isHidden]

\* as scorePercentage, with the ratio taken the other way round
scorePercentageInverted(obtainedMarks, totalMarks) ==
    IF obtainedMarks > 0 THEN MathRoundPct(totalMarks, obtainedMarks) ELSE 0

\* processSubmission: final score
scorePercentage(obtainedMarks, totalMarks) ==
    IF totalMarks > 0 THEN MathRoundPct(obtainedMarks, totalMarks) ELSE 0

\* submissionSchema.pre('save')
submissionPreSave(doc) ==
    [doc EXCEPT
       !.totalMarks = SumOver(doc.testCaseResults, "marksAwarded"),
       !.passedTestCases =
           Cardinality({i \in DOMAIN doc.testCaseResults :
                            doc.testCaseResults[i].status = "passed"}),
       !.totalTestCases = Len(doc.testCaseResults)]

\* new Submission({...}) of the submit handler, with the schema defaults
newSubmission(questionId, userId, language, maxMarks, submittedAt) ==
    [questionId |-> questionId, userId |-> userId, language |-> language,
     status |-> "pending", testCaseResults |-> <<>>, totalMarks |-> 0,
     marksAwarded |-> 0, scorePercentage |-> 0, maxMarks |-> maxMarks,
     passedTestCases |-> 0, totalTestCases |-> 0, executionTime |-> 0,
     memoryUsed |-> 0, submittedAt |-> submittedAt, compilationError |-> ""]

\* questionSchema.pre('save')
questionPreSave(question) ==
    [question EXCEPT !.totalMarks = SumOver(question.testCases, "marks")]


\* ------------------------------------------------------------------- data
\* the test cases of the contest question that submit requests are graded on
SampleTestCases ==
    << [id |-> 1, expectedOutput |-> <<"5">>, marks |-> 1, isHidden |-> FALSE],
       [id |-> 2, expectedOutput |-> <<"5", "\n">>, marks |-> 7, isHidden |-> TRUE] >>

SampleQuestion ==
    questionPreSave([id |-> 1, testCases |-> SampleTestCases,
                     timeLimit |-> DefaultTimeLimit, totalMarks |-> 0])

SampleContest ==
    [id |-> "c1", isActive |-> TRUE, startTime |-> 1, endTime |-> 3,
     allowedLanguages |-> {"c", "cpp", "java", "python"},
     maxAttempts |-> DefaultMaxAttempts, questions |-> <<SampleQuestion>>]

\* the questions that single submit requests are graded on: every list of up
\* to MaxTestCases test cases with these marks, hidden or visible
TestMarks == {0, 1, 7}

TestCaseLists ==
    UNION { [1..n -> [marks : TestMarks, isHidden : BOOLEAN]] : n \in 0..MaxTestCases }

GradedQuestion(shape) ==
    questionPreSave(
        [id |-> 1,
         testCases |->
             [k \in DOMAIN shape |->
                 [id |-> k,
                  expectedOutput |->
                      IF shape[k].isHidden THEN <<"5", "\n">> ELSE <<"5">>,
                  marks |-> shape[k].marks, isHidden |-> shape[k].isHidden]],
         timeLimit |-> DefaultTimeLimit, totalMarks |-> 0])

\* what the Runtime Invoker may report for one invocation (output, error) and
\* the wall time after which the report arrives
ReportExact == [output |-> <<"5">>, error |-> "", elapsed |-> DefaultTimeLimit]
ReportPadded == [output |-> <<"5", "\n">>, error |-> "", elapsed |-> DefaultTimeLimit]
ReportWrong == [output |-> <<"6">>, error |-> "", elapsed |-> DefaultTimeLimit - 1]
ReportEmpty == [output |-> <<>>, error |-> "", elapsed |-> DefaultTimeLimit - 1]
ReportLate == [output |-> <<"5">>, error |-> "", elapsed |-> DefaultTimeLimit + 1]
ReportError == [output |-> <<>>, error |-> "Traceback", elapsed |-> DefaultTimeLimit - 1]
ReportLateError ==
    [output |-> <<"6">>, error |-> "Traceback", elapsed |-> DefaultTimeLimit + 1]

InvokerReports ==
    {ReportExact, ReportPadded, ReportWrong, ReportEmpty, ReportLate, ReportError,
     ReportLateError}

\* the reports drawn while several submit requests interleave
InterleavedReports == {ReportExact, ReportPadded}

\* request bodies of the submit route
SubmitContestIds == {"", "c1", "c0"}
SubmitQuestionIds == {1, 2}
SubmitLanguages == {"python", "javascript"}

NoQuestion == [id |-> 0, testCases |-> <<>>, timeLimit |-> 0, totalMarks |-> 0]
NoDoc == [newSubmission(0, "", "", 0, 0) EXCEPT !.status = "none"]
NoResp == [code |-> 0]
\* no Outcome of executeCode at hand
NoResult ==
    [status |-> "none", error |-> "", executionTime |-> 0, memoryUsed |-> 0,
     output |-> <<>>]

IdleReq ==
    [pc |-> "idle", userId |-> "", contestId |-> "", questionId |-> 0,
     language |-> "", maxAttempts |-> 0, question |-> NoQuestion, sid |-> 0,
     i |-> 0, testCaseResults |-> <<>>, totalExecutionTime |-> 0,
     totalMemoryUsed |-> 0, totalMarks |-> 0, obtainedMarks |-> 0,
     submission |-> NoDoc, error |-> "", result |-> NoResult,
     visibleTestCases |-> <<>>]

DoneReq == [IdleReq EXCEPT !.pc = "done"]

\* ------------------------------------------------------------------ state
VARIABLES
    contest,      \* the Contest document (with its embedded questions)
    now,          \* the clock read by new Date()
    subs,         \* the Submission collection, in insertion order; _id = index
    req,          \* per submit request: position and locals of the handler
    resp,         \* per submit request: the response sent
    getResp,      \* response of the get-submission request just served
    leaderboard   \* response of the leaderboard request just served

vars == <<contest, now, subs, req, resp, getResp, leaderboard>>

Init ==
    /\ contest = SampleContest
    /\ now = 2
    /\ subs = <<>>
    /\ req = [r \in Reqs |-> IdleReq]
    /\ resp = [r \in Reqs |-> NoResp]
    /\ getResp = NoResp
    /\ leaderboard = NoResp

\* contest.questions.id(questionId)
questionsId(questions, questionId) ==
    IF \E k \in DOMAIN questions : questions[k].id = questionId
    THEN questions[CHOOSE k \in DOMAIN questions :
                       /\ questions[k].id = questionId
                       /\ \A j \in 1..(k - 1) : questions[j].id # questionId]
    ELSE NoQuestion

\* Submission.countDocuments({contestId, questionId, userId})
countDocuments(questionId, userId) ==
    Cardinality({k \in DOMAIN subs :
                    subs[k].questionId = questionId /\ subs[k].userId = userId})

\* a response ends the request
Respond(r, response) ==
    /\ resp' = [resp EXCEPT ![r] = response]
    /\ req' = [req EXCEPT ![r] = DoneReq]

\* the outer catch of the submit handler
SubmitFailed(r) ==
    Respond(r, [code |-> 500, error |-> "Failed to submit code"])

\* the catch around processSubmission in the submit handler
ProcessingFailed(r, message) ==
    Respond(r, [code |-> 201, message |-> "Code submitted but processing failed",
                submissionId |-> req[r].sid, status |-> "error", error |-> message])

\* POST /: field validation, then Contest.findById is issued
SubmitValidate(r) ==
    /\ req[r].pc = "idle"
    /\ \A k \in 1..(r - 1) : req[k].pc # "idle"   \* request slots are taken in order
    /\ \E userId \in Users, contestId \in SubmitContestIds,
          questionId \in SubmitQuestionIds, language \in SubmitLanguages :
          IF contestId = ""
          THEN Respond(r, [code |-> 400, error |-> "All fields are required"])
          ELSE /\ req' = [req EXCEPT ![r] =
                     [IdleReq EXCEPT !.pc = "loadContest", !.userId = userId,
                                     !.contestId = contestId,
                                     !.questionId = questionId,
                                     !.language = language]]
               /\ resp' = resp
    /\ getResp' = NoResp
    /\ UNCHANGED <<contest, now, subs, leaderboard>>

\* POST /: Contest.findById answers; the checks up to issuing countDocuments
SubmitContestLoaded(r) ==
    /\ req[r].pc = "loadContest"
    /\ \/ SubmitFailed(r)
       \/ LET found == req[r].contestId = contest.id
              question == questionsId(contest.questions, req[r].questionId)
          IN  IF ~found
              THEN Respond(r, [code |-> 404, error |-> "Contest not found"])
              ELSE IF question = NoQuestion
              THEN Respond(r, [code |-> 404, error |-> "Question not found"])
              ELSE IF ~contest.isActive \/ contest.endTime < now
              THEN Respond(r, [code |-> 403, error |-> "Contest is not accessible"])
              ELSE IF contest.startTime > now
              THEN Respond(r, [code |-> 403, error |-> "Contest has not started yet"])
              ELSE IF req[r].language \notin contest.allowedLanguages
              THEN Respond(r, [code |-> 400,
                      error |-> "Programming language not allowed for this contest"])
              ELSE /\ req' = [req EXCEPT ![r].pc = "count",
                                         ![r].question = question,
                                         ![r].maxAttempts = contest.maxAttempts]
                   /\ resp' = resp
    /\ getResp' = NoResp
    /\ UNCHANGED <<contest, now, subs, leaderboard>>

\* as SubmitCounted, but the Submission record is created before the attempt
\* limit is checked
SubmitCountedAfterCreate(r) ==
    /\ req[r].pc = "count"
    /\ \/ SubmitFailed(r) /\ subs' = subs
       \/ LET existingSubmissions ==
                  countDocuments(req[r].questionId, req[r].userId)
              submission ==
                  newSubmission(req[r].questionId, req[r].userId, req[r].language,
                                req[r].question.totalMarks, now)
          IN  IF existingSubmissions >= req[r].maxAttempts
              THEN /\ Respond(r, [code |-> 403,
                                  error |-> "Maximum submission attempts reached"])
                   /\ subs' = Append(subs, submissionPreSave(submission))
              ELSE /\ req' = [req EXCEPT ![r].pc = "insert",
                                         ![r].submission = submission]
                   /\ resp' = resp
                   /\ subs' = subs
    /\ getResp' = NoResp
    /\ UNCHANGED <<contest, now, leaderboard>>

\* POST /: countDocuments answers; the limit check, then the new Submission
\* is built and its save is issued
SubmitCounted(r) ==
    /\ req[r].pc = "count"
    /\ \/ SubmitFailed(r)
       \/ LET existingSubmissions ==
                  countDocuments(req[r].questionId, req[r].userId)
          IN  IF existingSubmissions >= req[r].maxAttempts
              THEN Respond(r, [code |-> 403,
                               error |-> "Maximum submission attempts reached"])
              ELSE /\ req' = [req EXCEPT
                         ![r].pc = "insert",
                         ![r].submission =
                             newSubmission(req[r].questionId, req[r].userId,
                                           req[r].language,
                                           req[r].question.totalMarks, now)]
                   /\ resp' = resp
    /\ getResp' = NoResp
    /\ UNCHANGED <<contest, now, subs, leaderboard>>

\* POST /: submission.save() answers; processSubmission starts and issues
\* Submission.findById
SubmitSaved(r) ==
    /\ req[r].pc = "insert"
    /\ \/ SubmitFailed(r) /\ subs' = subs
       \/ /\ subs' = Append(subs, submissionPreSave(req[r].submission))
          /\ req' = [req EXCEPT ![r].pc = "procLoad", ![r].sid = Len(subs) + 1,
                                ![r].submission = NoDoc]
          /\ resp' = resp
    /\ getResp' = NoResp
    /\ UNCHANGED <<contest, now, leaderboard>>


\* as finishGrading, but a run that obtained no marks is given status error
finishGradingErrorWithoutMarks(q, testCaseResults, totalExecutionTime, totalMemoryUsed, totalMarks, obtainedMarks) ==
    [q EXCEPT
       !.pc = "finalSave",
       !.testCaseResults = <<>>, !.totalExecutionTime = 0, !.totalMemoryUsed = 0,
       !.totalMarks = 0, !.obtainedMarks = 0, !.i = 0,
       !.submission =
           [q.submission EXCEPT
              !.testCaseResults = testCaseResults,
              !.executionTime = totalExecutionTime,
              !.memoryUsed = totalMemoryUsed,
              !.status = IF obtainedMarks = 0 /\ totalMarks > 0
                         THEN "error" ELSE "completed",
              !.marksAwarded = obtainedMarks,
              !.totalMarks = totalMarks,
              !.scorePercentage = scorePercentage(obtainedMarks, totalMarks)]]

\* as finishGrading, but the status is left as it was loaded (running)
finishGradingStillRunning(q, testCaseResults, totalExecutionTime, totalMemoryUsed, totalMarks, obtainedMarks) ==
    [q EXCEPT
       !.pc = "finalSave",
       !.testCaseResults = <<>>, !.totalExecutionTime = 0, !.totalMemoryUsed = 0,
       !.totalMarks = 0, !.obtainedMarks = 0, !.i = 0,
       !.submission =
           [q.submission EXCEPT
              !.testCaseResults = testCaseResults,
              !.executionTime = totalExecutionTime,
              !.memoryUsed = totalMemoryUsed,
              !.marksAwarded = obtainedMarks,
              !.totalMarks = totalMarks,
              !.scorePercentage = scorePercentage(obtainedMarks, totalMarks)]]

\* processSubmission: the accumulators after the loop are copied onto the
\* loaded document and its save is issued
finishGrading(q, testCaseResults, totalExecutionTime, totalMemoryUsed, totalMarks, obtainedMarks) ==
    [q EXCEPT
       !.pc = "finalSave",
       !.testCaseResults = <<>>, !.totalExecutionTime = 0, !.totalMemoryUsed = 0,
       !.totalMarks = 0, !.obtainedMarks = 0, !.i = 0,
       !.submission =
           [q.submission EXCEPT
              !.testCaseResults = testCaseResults,
              !.executionTime = totalExecutionTime,
              !.memoryUsed = totalMemoryUsed,
              !.status = "completed",
              !.marksAwarded = obtainedMarks,
              !.totalMarks = totalMarks,
              !.scorePercentage = scorePercentage(obtainedMarks, totalMarks)]]

\* processSubmission: control reaches its catch block, which issues findById
enterCatch(q, message) ==
    [q EXCEPT !.pc = "catchLoad", !.error = message, !.submission = NoDoc,
              !.testCaseResults = <<>>, !.totalExecutionTime = 0,
              !.totalMemoryUsed = 0, !.totalMarks = 0, !.obtainedMarks = 0,
              !.i = 0, !.result = NoResult]

\* processSubmission: Submission.findById answers; status becomes running in
\* memory and the save is issued
ProcessLoaded(r) ==
    /\ req[r].pc = "procLoad"
    /\ \/ req' = [req EXCEPT ![r] = enterCatch(req[r], "findById failed")]
       \/ req' = [req EXCEPT
                    ![r].pc = "saveRunning",
                    ![r].submission = [subs[req[r].sid] EXCEPT !.status = "running"]]
    /\ getResp' = NoResp
    /\ UNCHANGED <<contest, now, subs, resp, leaderboard>>

RECURSIVE visibleOnly(_)
\* the test cases of a list that are not hidden, in their order
visibleOnly(testCases) ==
    IF testCases = <<>>
    THEN <<>>
    ELSE IF Head(testCases).isHidden
    THEN visibleOnly(Tail(testCases))
    ELSE <<Head(testCases)>> \o visibleOnly(Tail(testCases))

\* as ProcessRunningSaved, but the loop runs over the visible test cases only
ProcessRunningSavedVisibleOnly(r) ==
    /\ req[r].pc = "saveRunning"
    /\ \/ /\ req' = [req EXCEPT ![r] = enterCatch(req[r], "save failed")]
          /\ subs' = subs
       \/ /\ subs' = [subs EXCEPT ![req[r].sid] = submissionPreSave(req[r].submission)]
          /\ LET q == [req[r] EXCEPT
                         !.submission = submissionPreSave(req[r].submission),
                         !.question.testCases = visibleOnly(@)]
             IN  IF q.question.testCases = <<>>
                 THEN req' = [req EXCEPT ![r] = finishGrading(q, <<>>, 0, 0, 0, 0)]
                 ELSE req' = [req EXCEPT ![r] = [q EXCEPT !.pc = "exec", !.i = 1]]
    /\ getResp' = NoResp
    /\ UNCHANGED <<contest, now, resp, leaderboard>>

\* processSubmission: the save of the running status answers; the loop starts
\* with the first executeCode call (or ends at once without test cases)
ProcessRunningSaved(r) ==
    /\ req[r].pc = "saveRunning"
    /\ \/ /\ req' = [req EXCEPT ![r] = enterCatch(req[r], "save failed")]
          /\ subs' = subs
       \/ /\ subs' = [subs EXCEPT ![req[r].sid] = submissionPreSave(req[r].submission)]
          /\ LET q == [req[r] EXCEPT !.submission = submissionPreSave(req[r].submission)]
             IN  IF q.question.testCases = <<>>
                 THEN req' = [req EXCEPT ![r] = finishGrading(q, <<>>, 0, 0, 0, 0)]
                 ELSE req' = [req EXCEPT ![r] = [q EXCEPT !.pc = "exec", !.i = 1]]
    /\ getResp' = NoResp
    /\ UNCHANGED <<contest, now, resp, leaderboard>>

\* as ProcessTestCase, but when a dispatcher call throws the loop starts
\* over from the first test case with fresh accumulators
ProcessTestCaseRestartingOnFault(r, reports) ==
    /\ req[r].pc = "exec"
    /\ LET q == req[r]
           testCase == q.question.testCases[q.i]
           after(result, testCaseResult, executionTime, memoryUsed) ==
               LET results == Append(q.testCaseResults, testCaseResult)
                   totalExecutionTime == q.totalExecutionTime + executionTime
                   totalMemoryUsed ==
                       IF memoryUsed > q.totalMemoryUsed
                       THEN memoryUsed ELSE q.totalMemoryUsed
                   totalMarks == q.totalMarks + testCase.marks
                   obtainedMarks == q.obtainedMarks + testCaseResult.marksAwarded
               IN  IF q.i = Len(q.question.testCases)
                   THEN finishGrading([q EXCEPT !.result = result], results,
                                      totalExecutionTime, totalMemoryUsed,
                                      totalMarks, obtainedMarks)
                   ELSE [q EXCEPT !.i = q.i + 1,
                                  !.result = result,
                                  !.testCaseResults = results,
                                  !.totalExecutionTime = totalExecutionTime,
                                  !.totalMemoryUsed = totalMemoryUsed,
                                  !.totalMarks = totalMarks,
                                  !.obtainedMarks = obtainedMarks]
       IN  \/ \E data \in reports :
                 LET result == executeCode(q.language, data, data.elapsed,
                                           q.question.timeLimit)
                 IN  req' = [req EXCEPT ![r] =
                                after(result, gradeTestCase(testCase, result),
                                      result.executionTime, result.memoryUsed)]
           \/ req' = [req EXCEPT ![r] =
                         [q EXCEPT !.i = 1, !.result = NoResult,
                                   !.testCaseResults = <<>>,
                                   !.totalExecutionTime = 0, !.totalMemoryUsed = 0,
                                   !.totalMarks = 0, !.obtainedMarks = 0]]
    /\ getResp' = NoResp
    /\ UNCHANGED <<contest, now, subs, resp, leaderboard>>

\* as ProcessTestCase, but the per-test-case catch block does not add the
\* test case's marks to totalMarks
ProcessTestCaseUncountedFault(r, reports) ==
    /\ req[r].pc = "exec"
    /\ LET q == req[r]
           testCase == q.question.testCases[q.i]
           after(result, testCaseResult, executionTime, memoryUsed, marks) ==
               LET results == Append(q.testCaseResults, testCaseResult)
                   totalExecutionTime == q.totalExecutionTime + executionTime
                   totalMemoryUsed ==
                       IF memoryUsed > q.totalMemoryUsed
                       THEN memoryUsed ELSE q.totalMemoryUsed
                   totalMarks == q.totalMarks + marks
                   obtainedMarks == q.obtainedMarks + testCaseResult.marksAwarded
               IN  IF q.i = Len(q.question.testCases)
                   THEN finishGrading([q EXCEPT !.result = result], results,
                                      totalExecutionTime, totalMemoryUsed,
                                      totalMarks, obtainedMarks)
                   ELSE [q EXCEPT !.i = q.i + 1,
                                  !.result = result,
                                  !.testCaseResults = results,
                                  !.totalExecutionTime = totalExecutionTime,
                                  !.totalMemoryUsed = totalMemoryUsed,
                                  !.totalMarks = totalMarks,
                                  !.obtainedMarks = obtainedMarks]
       IN  \/ \E data \in reports :
                 LET result == executeCode(q.language, data, data.elapsed,
                                           q.question.timeLimit)
                 IN  req' = [req EXCEPT ![r] =
                                after(result, gradeTestCase(testCase, result),
                                      result.executionTime, result.memoryUsed,
                                      testCase.marks)]
           \/ req' = [req EXCEPT ![r] =
                         after(NoResult,
                               faultedTestCase(testCase, "invoker fault"), 0, 0, 0)]
    /\ getResp' = NoResp
    /\ UNCHANGED <<contest, now, subs, resp, leaderboard>>

\* processSubmission: one executeCode call returns (or throws); its result is
\* classified and accumulated, then the next call or the final save is issued
\* (q.result keeps the Outcome of the call just classified)
ProcessTestCase(r, reports) ==
    /\ req[r].pc = "exec"
    /\ LET q == req[r]
           testCase == q.question.testCases[q.i]
           after(result, testCaseResult, executionTime, memoryUsed) ==
               LET results == Append(q.testCaseResults, testCaseResult)
                   totalExecutionTime == q.totalExecutionTime + executionTime
                   totalMemoryUsed ==
                       IF memoryUsed > q.totalMemoryUsed
                       THEN memoryUsed ELSE q.totalMemoryUsed
                   totalMarks == q.totalMarks + testCase.marks
                   obtainedMarks == q.obtainedMarks + testCaseResult.marksAwarded
               IN  IF q.i = Len(q.question.testCases)
                   THEN finishGrading([q EXCEPT !.result = result], results,
                                      totalExecutionTime, totalMemoryUsed,
                                      totalMarks, obtainedMarks)
                   ELSE [q EXCEPT !.i = q.i + 1,
                                  !.result = result,
                                  !.testCaseResults = results,
                                  !.totalExecutionTime = totalExecutionTime,
                                  !.totalMemoryUsed = totalMemoryUsed,
                                  !.totalMarks = totalMarks,
                                  !.obtainedMarks = obtainedMarks]
       IN  \/ \E data \in reports :
                 LET result == executeCode(q.language, data, data.elapsed,
                                           q.question.timeLimit)
                 IN  req' = [req EXCEPT ![r] =
                                after(result, gradeTestCase(testCase, result),
                                      result.executionTime, result.memoryUsed)]
           \/ req' = [req EXCEPT ![r] =
                         after(NoResult,
                               faultedTestCase(testCase, "invoker fault"), 0, 0)]
    /\ getResp' = NoResp
    /\ UNCHANGED <<contest, now, subs, resp, leaderboard>>

\* processSubmission: the final save answers; the handler then issues the
\* findById of the updated submission
ProcessFinalSaved(r) ==
    /\ req[r].pc = "finalSave"
    /\ \/ /\ req' = [req EXCEPT ![r] = enterCatch(req[r], "save failed")]
          /\ subs' = subs
       \/ /\ subs' = [subs EXCEPT ![req[r].sid] = submissionPreSave(req[r].submission)]
          /\ req' = [req EXCEPT ![r].pc = "fetch", ![r].submission = NoDoc,
                                ![r].result = NoResult]
    /\ getResp' = NoResp
    /\ UNCHANGED <<contest, now, resp, leaderboard>>

\* processSubmission catch block: findById answers; the error status is set
\* in memory and its save is issued
ProcessCatchLoaded(r) ==
    /\ req[r].pc = "catchLoad"
    /\ \/ ProcessingFailed(r, "findById failed")
       \/ /\ req' = [req EXCEPT
                       ![r].pc = "catchSave",
                       ![r].submission =
                           [subs[req[r].sid] EXCEPT
                              !.status = "error",
                              !.compilationError = req[r].error]]
          /\ resp' = resp
    /\ getResp' = NoResp
    /\ UNCHANGED <<contest, now, subs, leaderboard>>

\* processSubmission catch block: the save of the error status answers
ProcessCatchSaved(r) ==
    /\ req[r].pc = "catchSave"
    /\ \/ ProcessingFailed(r, "save failed") /\ subs' = subs
       \/ /\ subs' = [subs EXCEPT ![req[r].sid] = submissionPreSave(req[r].submission)]
          /\ req' = [req EXCEPT ![r].pc = "fetch", ![r].submission = NoDoc,
                                ![r].error = ""]
          /\ resp' = resp
    /\ getResp' = NoResp
    /\ UNCHANGED <<contest, now, leaderboard>>

\* POST /: Submission.findById of the updated submission answers; the 201
\* response is sent
SubmitRespond(r) ==
    /\ req[r].pc = "fetch"
    /\ \/ ProcessingFailed(r, "findById failed")
       \/ LET updatedSubmission == subs[req[r].sid]
          IN  Respond(r, [code |-> 201, message |-> "Code submitted successfully",
                          submissionId |-> req[r].sid,
                          status |-> updatedSubmission.status,
                          marks |-> updatedSubmission.marksAwarded,
                          totalMarks |-> updatedSubmission.totalMarks,
                          scorePercentage |-> updatedSubmission.scorePercentage,
                          testResults |-> updatedSubmission.testCaseResults,
                          submittedAt |-> updatedSubmission.submittedAt,
                          executionTime |-> updatedSubmission.executionTime])
    /\ getResp' = NoResp
    /\ UNCHANGED <<contest, now, subs, leaderboard>>

\* GET /:id, asked by a user for the submission id that the response to
\* submit request r carried
GetSubmission(userId, r) ==
    /\ resp[r].code = 201
    /\ LET id == resp[r].submissionId
       IN  getResp' =
              IF id \notin DOMAIN subs
              THEN [code |-> 404, error |-> "Submission not found"]
              ELSE IF subs[id].userId # userId
              THEN [code |-> 403, error |-> "Access denied"]
              ELSE [code |-> 200, submission |-> subs[id]]
    /\ UNCHANGED <<contest, now, subs, req, resp, leaderboard>>

Next ==
    \/ \E r \in Reqs : SubmitValidate(r)
    \/ \E r \in Reqs : SubmitContestLoaded(r)
    \/ \E r \in Reqs : SubmitCounted(r)
    \/ \E r \in Reqs : SubmitSaved(r)
    \/ \E r \in Reqs : ProcessLoaded(r)
    \/ \E r \in Reqs : ProcessRunningSaved(r)
    \/ \E r \in Reqs : ProcessTestCase(r, InterleavedReports)
    \/ \E r \in Reqs : ProcessFinalSaved(r)
    \/ \E r \in Reqs : ProcessCatchLoaded(r)
    \/ \E r \in Reqs : ProcessCatchSaved(r)
    \/ \E r \in Reqs : SubmitRespond(r)

Spec == Init /\ [][Next]_vars


\* One submit request at a time, on any of the graded questions, with every
\* invoker report; the submitter may read submissions back.
InitGrade ==
    /\ \E shape \in TestCaseLists :
          contest = [SampleContest EXCEPT !.questions = <<GradedQuestion(shape)>>]
    /\ now = 2
    /\ subs = <<>>
    /\ req = [r \in Reqs |-> IdleReq]
    /\ resp = [r \in Reqs |-> NoResp]
    /\ getResp = NoResp
    /\ leaderboard = NoResp

NextGrade ==
    \/ SubmitValidate(1)
    \/ SubmitContestLoaded(1)
    \/ SubmitCounted(1)
    \/ SubmitSaved(1)
    \/ ProcessLoaded(1)
    \/ ProcessRunningSaved(1)
    \/ ProcessTestCase(1, InvokerReports)
    \/ ProcessFinalSaved(1)
    \/ ProcessCatchLoaded(1)
    \/ ProcessCatchSaved(1)
    \/ SubmitRespond(1)
    \/ \E userId \in Users : GetSubmission(userId, 1)

SpecGrade == InitGrade /\ [][NextGrade]_vars

\* Submit requests served one after the other, at any time around the contest
\* window, on a contest that is active or not.
WindowTimes == 0..4

InitWindow ==
    /\ \E isActive \in BOOLEAN : contest = [SampleContest EXCEPT !.isActive = isActive]
    /\ now \in WindowTimes
    /\ subs = <<>>
    /\ req = [r \in Reqs |-> IdleReq]
    /\ resp = [r \in Reqs |-> NoResp]
    /\ getResp = NoResp
    /\ leaderboard = NoResp

NextWindow ==
    \/ \E r \in Reqs : (\A k \in 1..(r - 1) : req[k].pc = "done") /\ SubmitValidate(r)
    \/ \E r \in Reqs : SubmitContestLoaded(r)
    \/ \E r \in Reqs : SubmitCounted(r)
    \/ \E r \in Reqs : SubmitSaved(r)
    \/ \E r \in Reqs : ProcessLoaded(r)
    \/ \E r \in Reqs : ProcessRunningSaved(r)
    \/ \E r \in Reqs : ProcessTestCase(r, InterleavedReports)
    \/ \E r \in Reqs : ProcessFinalSaved(r)
    \/ \E r \in Reqs : ProcessCatchLoaded(r)
    \/ \E r \in Reqs : ProcessCatchSaved(r)
    \/ \E r \in Reqs : SubmitRespond(r)

SpecWindow == InitWindow /\ [][NextWindow]_vars

\* One submit request on the sample question of a contest that allows every
\* language of the schema, so that both callbacks of executeCode are reached.
SchemaLanguages == {"c", "cpp", "java", "python", "javascript"}

InitDispatch ==
    /\ contest = [SampleContest EXCEPT !.allowedLanguages = SchemaLanguages]
    /\ now = 2
    /\ subs = <<>>
    /\ req = [r \in Reqs |-> IdleReq]
    /\ resp = [r \in Reqs |-> NoResp]
    /\ getResp = NoResp
    /\ leaderboard = NoResp

SpecDispatch == InitDispatch /\ [][NextGrade]_vars

\* One submit request whose persistence operations all succeed: no step
\* takes a fault branch of a database operation. Every continuation of the
\* handler runs once the operation it awaits has answered, and the Runtime
\* Invoker answers (or throws on) every invocation: weak fairness of the steps.
PersistenceSucceeded ==
    \A r \in Reqs :
        /\ req[r].pc \notin {"catchLoad", "catchSave"}
        /\ resp[r].code # 500
        /\ resp[r].code = 201 => resp[r].message = "Code submitted successfully"

NextLive ==
    \/ SubmitValidate(1) /\ PersistenceSucceeded'
    \/ SubmitContestLoaded(1) /\ PersistenceSucceeded'
    \/ SubmitCounted(1) /\ PersistenceSucceeded'
    \/ SubmitSaved(1) /\ PersistenceSucceeded'
    \/ ProcessLoaded(1) /\ PersistenceSucceeded'
    \/ ProcessRunningSaved(1) /\ PersistenceSucceeded'
    \/ ProcessTestCase(1, InvokerReports) /\ PersistenceSucceeded'
    \/ ProcessFinalSaved(1) /\ PersistenceSucceeded'
    \/ SubmitRespond(1) /\ PersistenceSucceeded'

SpecLive == InitDispatch /\ [][NextLive]_vars /\ WF_vars(NextLive)

\* ---------------------------------------------------- POST /run (ad-hoc run)
\* the time limit of a run on custom input (ms)
CustomTimeLimit == 10000

\* request bodies of the run route: no language, a dispatched one, one that
\* executeCode does not support; questionId 0 stands for none given
RunLanguages == {"", "python", "ruby"}
RunQuestionIds == {0, 1, 2}

\* the contest that runs are requested on: its second question has the hidden
\* test case first
RunQuestion ==
    questionPreSave(
        [id |-> 2,
         testCases |->
             << [id |-> 1, expectedOutput |-> <<"5">>, marks |-> 1, isHidden |-> TRUE],
                [id |-> 2, expectedOutput |-> <<"5">>, marks |-> 7, isHidden |-> FALSE] >>,
         timeLimit |-> DefaultTimeLimit, totalMarks |-> 0])

RunContest == [SampleContest EXCEPT !.questions = <<SampleQuestion, RunQuestion>>]

\* the outer catch of the run handler
RunFailed(r) == Respond(r, [code |-> 500, error |-> "Failed to run code"])

\* POST /run: validation; then Contest.findById is issued when a contest and
\* a question are named, executeCode on the custom input otherwise
RunValidate(r) ==
    /\ req[r].pc = "idle"
    /\ \A k \in 1..(r - 1) : req[k].pc # "idle"   \* request slots are taken in order
    /\ \E contestId \in SubmitContestIds, questionId \in RunQuestionIds,
          language \in RunLanguages :
          IF language = ""
          THEN Respond(r, [code |-> 400, error |-> "Code and language are required"])
          ELSE /\ req' = [req EXCEPT ![r] =
                     [IdleReq EXCEPT
                        !.pc = IF contestId # "" /\ questionId # 0
                               THEN "runLoad" ELSE "runCustom",
                        !.contestId = contestId, !.questionId = questionId,
                        !.language = language]]
               /\ resp' = resp
    /\ getResp' = NoResp
    /\ UNCHANGED <<contest, now, subs, leaderboard>>

\* the response of a run on the test cases of a question
RunResponse(visibleTestCases, testResults) ==
    [code |-> 200, success |-> TRUE, testResults |-> testResults,
     totalVisible |-> Len(visibleTestCases),
     passedVisible |->
         Cardinality({j \in DOMAIN testResults : testResults[j].isCorrect})]

\* RunContestLoaded without the isHidden filter of the test cases
RunContestLoadedAllTestCases(r) ==
    /\ req[r].pc = "runLoad"
    /\ \/ RunFailed(r)
       \/ LET question == questionsId(contest.questions, req[r].questionId)
              visibleTestCases == question.testCases
          IN  IF req[r].contestId # contest.id
              THEN Respond(r, [code |-> 404, error |-> "Contest not found"])
              ELSE IF question = NoQuestion
              THEN Respond(r, [code |-> 404, error |-> "Question not found"])
              ELSE IF visibleTestCases = <<>>
              THEN Respond(r, RunResponse(visibleTestCases, <<>>))
              ELSE /\ req' = [req EXCEPT ![r].pc = "runExec", ![r].i = 1,
                                         ![r].question = question,
                                         ![r].visibleTestCases = visibleTestCases]
                   /\ resp' = resp
    /\ getResp' = NoResp
    /\ UNCHANGED <<contest, now, subs, leaderboard>>

\* POST /run: Contest.findById answers; the visible test cases are selected
\* and executeCode is called on the first of them
RunContestLoaded(r) ==
    /\ req[r].pc = "runLoad"
    /\ \/ RunFailed(r)
       \/ LET question == questionsId(contest.questions, req[r].questionId)
              visibleTestCases == visibleOnly(question.testCases)
          IN  IF req[r].contestId # contest.id
              THEN Respond(r, [code |-> 404, error |-> "Contest not found"])
              ELSE IF question = NoQuestion
              THEN Respond(r, [code |-> 404, error |-> "Question not found"])
              ELSE IF visibleTestCases = <<>>
              THEN Respond(r, RunResponse(visibleTestCases, <<>>))
              ELSE /\ req' = [req EXCEPT ![r].pc = "runExec", ![r].i = 1,
                                         ![r].question = question,
                                         ![r].visibleTestCases = visibleTestCases]
                   /\ resp' = resp
    /\ getResp' = NoResp
    /\ UNCHANGED <<contest, now, subs, leaderboard>>

\* POST /run, body of the loop's try block: the entry of testResults
runTestResult(testCase, result) ==
    LET isCorrect == /\ result.status = "success"
                     /\ trim(result.output) = trim(testCase.expectedOutput)
    IN  [expectedOutput |-> testCase.expectedOutput, actualOutput |-> result.output,
         status |-> result.status, error |-> result.error,
         executionTime |-> result.executionTime, isCorrect |-> isCorrect,
         marks |-> IF isCorrect THEN testCase.marks ELSE 0]

\* POST /run, catch block of the loop
runFaultedResult(testCase, message) ==
    [expectedOutput |-> testCase.expectedOutput, actualOutput |-> <<>>,
     status |-> "error", error |-> message, executionTime |-> 0,
     isCorrect |-> FALSE, marks |-> 0]

\* POST /run: one executeCode call on a visible test case returns (or
\* throws); then the next call is issued or the response is sent
RunTestCase(r, reports) ==
    /\ req[r].pc = "runExec"
    /\ LET q == req[r]
           testCase == q.visibleTestCases[q.i]
           after(testResult) ==
               LET testResults == Append(q.testCaseResults, testResult)
               IN  IF q.i = Len(q.visibleTestCases)
                   THEN Respond(r, RunResponse(q.visibleTestCases, testResults))
                   ELSE /\ req' = [req EXCEPT ![r].i = q.i + 1,
                                              ![r].testCaseResults = testResults]
                        /\ resp' = resp
       IN  \/ \E data \in reports :
                 after(runTestResult(testCase,
                           executeCode(q.language, data, data.elapsed,
                                       q.question.timeLimit)))
           \/ after(runFaultedResult(testCase, "invoker fault"))
    /\ getResp' = NoResp
    /\ UNCHANGED <<contest, now, subs, leaderboard>>

\* POST /run: the executeCode call on the custom input returns (or throws)
RunCustom(r, reports) ==
    /\ req[r].pc = "runCustom"
    /\ \/ \E data \in reports :
             LET result == executeCode(req[r].language, data, data.elapsed,
                                       CustomTimeLimit)
             IN  Respond(r, [code |-> 200, success |-> TRUE,
                             result |-> [status |-> result.status,
                                         output |-> result.output,
                                         error |-> result.error,
                                         executionTime |-> result.executionTime]])
       \/ RunFailed(r)
    /\ getResp' = NoResp
    /\ UNCHANGED <<contest, now, subs, leaderboard>>

\* Runs in every request slot, interleaved with one another and with a
\* submit request in the first slot.
InitRun ==
    /\ contest = RunContest
    /\ now = 2
    /\ subs = <<>>
    /\ req = [r \in Reqs |-> IdleReq]
    /\ resp = [r \in Reqs |-> NoResp]
    /\ getResp = NoResp
    /\ leaderboard = NoResp

NextRun ==
    \/ \E r \in Reqs : RunValidate(r)
    \/ \E r \in Reqs : RunContestLoaded(r)
    \/ \E r \in Reqs : RunTestCase(r, InvokerReports)
    \/ \E r \in Reqs : RunCustom(r, InvokerReports)
    \/ SubmitValidate(1)
    \/ SubmitContestLoaded(1)
    \/ SubmitCounted(1)
    \/ SubmitSaved(1)
    \/ ProcessLoaded(1)
    \/ ProcessRunningSaved(1)
    \/ ProcessTestCase(1, InterleavedReports)
    \/ ProcessFinalSaved(1)
    \/ ProcessCatchLoaded(1)
    \/ ProcessCatchSaved(1)
    \/ SubmitRespond(1)

SpecRun == InitRun /\ [][NextRun]_vars

\* ------------------------------------------------- admin contest operations
\* request bodies for a question: the fields present, and their values
AdminTestCases ==
    { <<>>,
      << [id |-> 1, expectedOutput |-> <<"5">>, marks |-> 1, isHidden |-> FALSE] >>,
      << [id |-> 1, expectedOutput |-> <<"5">>, marks |-> 1, isHidden |-> FALSE],
         [id |-> 2, expectedOutput |-> <<"6">>, marks |-> 7, isHidden |-> TRUE] >> }

QuestionBodies ==
    { body \in [fields : SUBSET {"testCases", "totalMarks"},
                testCases : AdminTestCases, totalMarks : {0, 5}] :
          /\ "testCases" \notin body.fields => body.testCases = <<>>
          /\ "totalMarks" \notin body.fields => body.totalMarks = 0 }

\* Object.assign(question, body)
assignQuestion(question, body) ==
    [question EXCEPT
       !.testCases = IF "testCases" \in body.fields THEN body.testCases ELSE @,
       !.totalMarks = IF "totalMarks" \in body.fields THEN body.totalMarks ELSE @]

\* a question subdocument cast from a request body, with the schema defaults
castQuestion(id, body) ==
    assignQuestion([id |-> id, testCases |-> <<>>, timeLimit |-> DefaultTimeLimit,
                    totalMarks |-> 0], body)

\* contest.save(): the pre-save hook of every embedded question runs
contestSave(doc) ==
    [doc EXCEPT !.questions = [k \in DOMAIN @ |-> questionPreSave(@[k])]]

\* the _id given to a new question subdocument
freshQuestionId(questions) ==
    CHOOSE id \in 1..(Len(questions) + 1) :
        /\ \A k \in DOMAIN questions : questions[k].id # id
        /\ \A smaller \in 1..(id - 1) :
              \E k \in DOMAIN questions : questions[k].id = smaller

NoContest == [SampleContest EXCEPT !.id = "", !.questions = <<>>]

\* POST /contests
CreateContest(bodies) ==
    /\ contest.id = ""
    /\ contest' = contestSave(
           [SampleContest EXCEPT
              !.questions = [k \in DOMAIN bodies |-> castQuestion(k, bodies[k])]])
    /\ UNCHANGED <<now, subs, req, resp, getResp, leaderboard>>

\* PUT /contests/:id: findByIdAndUpdate sets the fields of the body on the
\* stored document; no save hook runs
UpdateContest(fields, bodies, maxAttempts) ==
    /\ contest.id # ""
    /\ contest' =
          [contest EXCEPT
             !.questions =
                 IF "questions" \in fields
                 THEN [k \in DOMAIN bodies |-> castQuestion(k, bodies[k])]
                 ELSE @,
             !.maxAttempts = IF "maxAttempts" \in fields THEN maxAttempts ELSE @]
    /\ UNCHANGED <<now, subs, req, resp, getResp, leaderboard>>

\* POST /contests/:id/questions
AddQuestion(body) ==
    /\ contest.id # ""
    /\ Len(contest.questions) < MaxQuestions
    /\ contest' = contestSave(
           [contest EXCEPT
              !.questions =
                  Append(@, castQuestion(freshQuestionId(contest.questions), body))])
    /\ UNCHANGED <<now, subs, req, resp, getResp, leaderboard>>

\* PUT /contests/:contestId/questions/:questionId
UpdateQuestion(questionId, body) ==
    /\ contest.id # ""
    /\ \E k \in DOMAIN contest.questions :
          /\ contest.questions[k].id = questionId
          /\ contest' = contestSave(
                 [contest EXCEPT
                    !.questions[k] = assignQuestion(contest.questions[k], body)])
    /\ UNCHANGED <<now, subs, req, resp, getResp, leaderboard>>

\* DELETE /contests/:contestId/questions/:questionId
DeleteQuestion(questionId) ==
    /\ contest.id # ""
    /\ \E k \in DOMAIN contest.questions :
          /\ contest.questions[k].id = questionId
          /\ contest' = contestSave(
                 [contest EXCEPT
                    !.questions =
                        SubSeq(@, 1, k - 1) \o SubSeq(@, k + 1, Len(@))])
    /\ UNCHANGED <<now, subs, req, resp, getResp, leaderboard>>

QuestionBodyLists ==
    UNION { [1..n -> QuestionBodies] : n \in 0..MaxQuestions }

InitAdmin ==
    /\ contest = NoContest
    /\ now = 2
    /\ subs = <<>>
    /\ req = [r \in Reqs |-> IdleReq]
    /\ resp = [r \in Reqs |-> NoResp]
    /\ getResp = NoResp
    /\ leaderboard = NoResp

NextAdmin ==
    \/ \E bodies \in QuestionBodyLists : CreateContest(bodies)
    \/ \E fields \in SUBSET {"questions", "maxAttempts"},
          bodies \in QuestionBodyLists, maxAttempts \in {1, 2} :
          UpdateContest(fields, bodies, maxAttempts)
    \/ \E body \in QuestionBodies : AddQuestion(body)
    \/ \E questionId \in 1..MaxQuestions, body \in QuestionBodies :
          UpdateQuestion(questionId, body)
    \/ \E questionId \in 1..MaxQuestions : DeleteQuestion(questionId)

SpecAdmin == InitAdmin /\ [][NextAdmin]_vars

\* ---------------------------------------------------------- leaderboard
\* the contest whose leaderboard is requested: two questions of two marks each
LeaderboardQuestion(id) ==
    questionPreSave(
        [id |-> id,
         testCases |->
             << [id |-> 1, expectedOutput |-> <<"5">>, marks |-> 1, isHidden |-> FALSE],
                [id |-> 2, expectedOutput |-> <<"5">>, marks |-> 1, isHidden |-> TRUE] >>,
         timeLimit |-> DefaultTimeLimit, totalMarks |-> 0])

LeaderboardContest ==
    [SampleContest EXCEPT
       !.maxAttempts = MaxSubs,
       !.questions = <<LeaderboardQuestion(1), LeaderboardQuestion(2)>>]

LeaderboardQuestionIds == {1, 2}

\* populate('userId'): the user document, or null for a user that is gone
populateUserId(userId) == IF userId \in Users THEN userId ELSE ""

\* as improveScore, but the score of the submission scanned last replaces the
\* question's score
improveScoreLastScanned(userScore, questionId, marksAwarded) ==
    LET currentQuestionScore == userScore.questionScores[questionId]
    IN  [userScore EXCEPT
           !.totalScore = @ + (marksAwarded - currentQuestionScore),
           !.questionScores[questionId] = marksAwarded,
           !.problemsSolved =
               IF currentQuestionScore = 0 /\ marksAwarded > 0 THEN @ + 1 ELSE @]

\* as improveScore, but every improvement counts as a problem solved
improveScoreCountingEach(userScore, questionId, marksAwarded) ==
    LET currentQuestionScore == userScore.questionScores[questionId]
    IN  IF marksAwarded > currentQuestionScore
        THEN [userScore EXCEPT
                !.totalScore = @ + (marksAwarded - currentQuestionScore),
                !.questionScores[questionId] = marksAwarded,
                !.problemsSolved = @ + 1]
        ELSE userScore

\* as improveScore, but every positive-scoring submission counts as a problem
\* solved, whether or not it improves the question's score
improveScoreSolvedOnPositive(userScore, questionId, marksAwarded) ==
    LET currentQuestionScore == userScore.questionScores[questionId]
        solved == IF marksAwarded > 0
                  THEN userScore.problemsSolved + 1
                  ELSE userScore.problemsSolved
    IN  IF marksAwarded > currentQuestionScore
        THEN [userScore EXCEPT
                !.totalScore = @ + (marksAwarded - currentQuestionScore),
                !.questionScores[questionId] = marksAwarded,
                !.problemsSolved = solved]
        ELSE [userScore EXCEPT !.problemsSolved = solved]

\* the leaderboard scan: "update if this submission has a better score for
\* this question"
improveScore(userScore, questionId, marksAwarded) ==
    LET currentQuestionScore == userScore.questionScores[questionId]
    IN  IF marksAwarded > currentQuestionScore
        THEN [userScore EXCEPT
                !.totalScore = @ + (marksAwarded - currentQuestionScore),
                !.questionScores[questionId] = marksAwarded,
                !.problemsSolved =
                    IF currentQuestionScore = 0 /\ marksAwarded > 0
                    THEN @ + 1 ELSE @]
        ELSE userScore

\* as scanSubmission, but totalTime is overwritten by each submission's
\* executionTime instead of accumulating it
scanSubmissionLastTime(userScores, submission) ==
    IF populateUserId(submission.userId) = ""
    THEN userScores
    ELSE
      LET userId == submission.userId
          withUser ==
              IF \E k \in DOMAIN userScores : userScores[k].userId = userId
              THEN userScores
              ELSE Append(userScores,
                          [userId |-> userId, totalScore |-> 0, problemsSolved |-> 0,
                           totalTime |-> 0, lastSubmission |-> submission.submittedAt,
                           maxPossibleScore |-> 0,
                           questionScores |-> [q \in LeaderboardQuestionIds |-> 0]])
          k == CHOOSE j \in DOMAIN withUser : withUser[j].userId = userId
          updated == improveScore(withUser[k], submission.questionId,
                                  submission.marksAwarded)
      IN  [withUser EXCEPT
             ![k] = [updated EXCEPT
                       !.totalTime = submission.executionTime,
                       !.lastSubmission = submission.submittedAt]]

\* as scanSubmission, but only a submission that improves the question's
\* score adds its executionTime to totalTime
scanSubmissionImprovingTime(userScores, submission) ==
    IF populateUserId(submission.userId) = ""
    THEN userScores
    ELSE
      LET userId == submission.userId
          withUser ==
              IF \E k \in DOMAIN userScores : userScores[k].userId = userId
              THEN userScores
              ELSE Append(userScores,
                          [userId |-> userId, totalScore |-> 0, problemsSolved |-> 0,
                           totalTime |-> 0, lastSubmission |-> submission.submittedAt,
                           maxPossibleScore |-> 0,
                           questionScores |-> [q \in LeaderboardQuestionIds |-> 0]])
          k == CHOOSE j \in DOMAIN withUser : withUser[j].userId = userId
          updated == improveScore(withUser[k], submission.questionId,
                                  submission.marksAwarded)
      IN  [withUser EXCEPT
             ![k] = [updated EXCEPT
                       !.totalTime = IF updated # withUser[k]
                                    THEN @ + submission.executionTime ELSE @,
                       !.lastSubmission = submission.submittedAt]]

\* the callback of submissions.forEach: userScores is the Map, in insertion
\* order
scanSubmission(userScores, submission) ==
    IF populateUserId(submission.userId) = ""
    THEN userScores
    ELSE
      LET userId == submission.userId
          withUser ==
              IF \E k \in DOMAIN userScores : userScores[k].userId = userId
              THEN userScores
              ELSE Append(userScores,
                          [userId |-> userId, totalScore |-> 0, problemsSolved |-> 0,
                           totalTime |-> 0, lastSubmission |-> submission.submittedAt,
                           maxPossibleScore |-> 0,
                           questionScores |-> [q \in LeaderboardQuestionIds |-> 0]])
          k == CHOOSE j \in DOMAIN withUser : withUser[j].userId = userId
          updated == improveScore(withUser[k], submission.questionId,
                                  submission.marksAwarded)
      IN  [withUser EXCEPT
             ![k] = [updated EXCEPT
                       !.totalTime = @ + submission.executionTime,
                       !.lastSubmission = submission.submittedAt]]

RECURSIVE forEachSubmission(_, _)
\* submissions.forEach(...) from an empty Map
forEachSubmission(userScores, submissions) ==
    IF submissions = <<>>
    THEN userScores
    ELSE forEachSubmission(scanSubmission(userScores, Head(submissions)),
                           Tail(submissions))

\* as compareEntries, without the tie-breaks
compareTotalScoreOnly(a, b) == b.totalScore - a.totalScore

\* the comparator of the leaderboard sort: negative puts a first
compareEntries(a, b) ==
    IF b.totalScore # a.totalScore
    THEN b.totalScore - a.totalScore
    ELSE IF b.problemsSolved # a.problemsSolved
    THEN b.problemsSolved - a.problemsSolved
    ELSE a.totalTime - b.totalTime

\* one placement of a stable sort: x goes in front of the first element that
\* is not in notAfter, the indices of the elements that do not sort after x
placeSorted(sorted, x, notAfter) ==
    LET n == IF \E j \in DOMAIN sorted : j \notin notAfter
             THEN (CHOOSE j \in DOMAIN sorted :
                       /\ j \notin notAfter
                       /\ \A i \in 1..(j - 1) : i \in notAfter) - 1
             ELSE Len(sorted)
    IN  SubSeq(sorted, 1, n) \o <<x>> \o SubSeq(sorted, n + 1, Len(sorted))

RECURSIVE sortEntries(_, _)
\* Array.prototype.sort with the leaderboard comparator (stable)
sortEntries(sorted, rest) ==
    IF rest = <<>>
    THEN sorted
    ELSE sortEntries(
             placeSorted(sorted, Head(rest),
                         {j \in DOMAIN sorted :
                              compareEntries(sorted[j], Head(rest)) <= 0}),
             Tail(rest))

RECURSIVE sortSubmittedAtDescending(_, _)
\* .sort({submittedAt: -1}) of the query
sortSubmittedAtDescending(sorted, rest) ==
    IF rest = <<>>
    THEN sorted
    ELSE sortSubmittedAtDescending(
             placeSorted(sorted, Head(rest),
                         {j \in DOMAIN sorted :
                              sorted[j].submittedAt >= Head(rest).submittedAt}),
             Tail(rest))

\* GET /admin/:id/leaderboard on the submissions of the contest: the list sent
buildLeaderboard(submissions, questions) ==
    LET scanned == sortSubmittedAtDescending(<<>>, submissions)
        userScores == forEachSubmission(<<>>, scanned)
        maxPossibleScore == SumOver(questions, "totalMarks")
        withMax == [k \in DOMAIN userScores |->
                       [userScores[k] EXCEPT !.maxPossibleScore = maxPossibleScore]]
    IN  sortEntries(<<>>, withMax)

\* GET /admin/:id/leaderboard
GetLeaderboard ==
    /\ leaderboard' =
          [code |-> 200, leaderboard |-> buildLeaderboard(subs, contest.questions)]
    /\ UNCHANGED <<contest, now, subs, req, resp, getResp>>

\* a submit request served from start to end: the graded Submission that
\* processSubmission's final save leaves in the collection (the fields that
\* the leaderboard reads; submittedAt follows the insertion)
StoreGraded(userId, questionId, marksAwarded, executionTime) ==
    /\ Len(subs) < MaxSubs
    /\ subs' = Append(subs,
          [newSubmission(questionId, userId, "python",
                         questionsId(contest.questions, questionId).totalMarks,
                         Len(subs) + 1)
             EXCEPT !.status = "completed", !.marksAwarded = marksAwarded,
                    !.executionTime = executionTime])
    /\ leaderboard' = NoResp
    /\ UNCHANGED <<contest, now, req, resp, getResp>>

InitLeaderboard ==
    /\ contest = LeaderboardContest
    /\ now = 2
    /\ subs = <<>>
    /\ req = [r \in Reqs |-> IdleReq]
    /\ resp = [r \in Reqs |-> NoResp]
    /\ getResp = NoResp
    /\ leaderboard = NoResp

NextLeaderboard ==
    \/ \E userId \in Users, questionId \in LeaderboardQuestionIds,
          marksAwarded \in 0..2, executionTime \in 0..1 :
          StoreGraded(userId, questionId, marksAwarded, executionTime)
    \/ GetLeaderboard

SpecLeaderboard == InitLeaderboard /\ [][NextLeaderboard]_vars

\* the same with one executionTime for every submission, for the properties
\* that compare all insertion orders of the submissions
NextLeaderboardOrders ==
    \/ \E userId \in Users, questionId \in LeaderboardQuestionIds,
          marksAwarded \in 0..2 :
          StoreGraded(userId, questionId, marksAwarded, 1)
    \/ GetLeaderboard

SpecLeaderboardOrders == InitLeaderboard /\ [][NextLeaderboardOrders]_vars

\* ------------------------------------------------------------------ claims

\* C1: for every (contest, question, user) triple the number of Submission
\* records created never exceeds the contest's maxAttempts, whatever the
\* interleaving of submit requests.
AttemptLimit ==
    \A userId \in Users, questionId \in SubmitQuestionIds :
        countDocuments(questionId, userId) <= contest.maxAttempts

LifecycleSteps ==
    { <<"pending", "running">>, <<"running", "completed">>, <<"running", "error">> }

\* C2: the persisted status of a Submission changes only along
\* pending -> running, running -> completed, running -> error.
SubmissionLifecycle ==
    [][\A k \in DOMAIN subs :
          subs'[k].status # subs[k].status
              => <<subs[k].status, subs'[k].status>> \in LifecycleSteps]_vars

\* two result lists that differ at most in the output/error of results that
\* are hidden in both
DifferOnlyInHiddenDetail(a, b) ==
    /\ Len(a) = Len(b)
    /\ \A i \in DOMAIN a :
          IF a[i].isHidden /\ b[i].isHidden
          THEN [a[i] EXCEPT !.output = <<>>, !.error = ""]
                 = [b[i] EXCEPT !.output = <<>>, !.error = ""]
          ELSE a[i] = b[i]

\* the result lists shown to submitters, each with the persisted list it shows
ShownResults ==
    { <<resp[r].testResults, subs[resp[r].submissionId].testCaseResults>> :
          r \in {x \in Reqs : resp[x].code = 201 /\ "testResults" \in DOMAIN resp[x]} }
    \cup
    (IF getResp.code = 200
     THEN { <<getResp.submission.testCaseResults, getResp.submission.testCaseResults>> }
     ELSE {})

\* C10: the results returned to the submitter do not reveal the output or
\* error of hidden results: two submissions that differ only in the
\* output/error of hidden results are shown the same detail for those results.
HiddenResultRedaction ==
    \A v \in ShownResults, w \in ShownResults :
        DifferOnlyInHiddenDetail(v[2], w[2])
            => \A i \in DOMAIN v[1] :
                  v[1][i].isHidden
                      => /\ v[1][i].output = w[1][i].output
                         /\ v[1][i].error = w[1][i].error


\* C3: a completed Submission's persisted totalMarks is the sum of maxMarks
\* over its persisted testCaseResults.
CompletedTotalMarks ==
    \A k \in DOMAIN subs :
        subs[k].status = "completed"
            => subs[k].totalMarks = SumOver(subs[k].testCaseResults, "maxMarks")

\* C4: a completed Submission's persisted scorePercentage is
\* round(marksAwarded / totalMarks * 100) of its persisted marksAwarded and
\* totalMarks when that totalMarks is positive, and 0 when it is 0.
CompletedScorePercentage ==
    \A k \in DOMAIN subs :
        subs[k].status = "completed"
            => subs[k].scorePercentage =
                  IF subs[k].totalMarks > 0
                  THEN MathRoundPct(subs[k].marksAwarded, subs[k].totalMarks)
                  ELSE 0

\* C5: a test case whose dispatcher call took longer than the question's
\* timeLimit has verdict time_limit_exceeded, whatever the invoker reported.
SlowIsTimeLimitExceeded ==
    \A k \in DOMAIN subs :
        \A i \in DOMAIN subs[k].testCaseResults :
            subs[k].testCaseResults[i].executionTime
                    > questionsId(contest.questions, subs[k].questionId).timeLimit
                => subs[k].testCaseResults[i].status = "time_limit_exceeded"


\* C6: Question.totalMarks is the sum of the marks of the question's test
\* cases in every persisted state, after any sequence of admin operations.
QuestionTotalMarks ==
    \A k \in DOMAIN contest.questions :
        contest.questions[k].totalMarks = SumOver(contest.questions[k].testCases, "marks")


\* the best marksAwarded among a user's submissions for a question (0 without)
BestMarks(userId, questionId) ==
    LET marks == {subs[k].marksAwarded :
                     k \in {j \in DOMAIN subs : /\ subs[j].userId = userId
                                                /\ subs[j].questionId = questionId}}
                 \cup {0}
    IN  CHOOSE m \in marks : \A other \in marks : other <= m

RECURSIVE SumBest(_, _)
SumBest(userId, questionIds) ==
    IF questionIds = {}
    THEN 0
    ELSE LET q == CHOOSE x \in questionIds : TRUE
         IN  BestMarks(userId, q) + SumBest(userId, questionIds \ {q})

\* C7: every user with a submission has a leaderboard entry, and each entry's
\* totalScore is the sum over the questions of the user's best marksAwarded,
\* in whatever order the submissions were scanned.
LeaderboardBestScore ==
    leaderboard.code = 200 =>
        /\ \A k \in DOMAIN subs :
              \E i \in DOMAIN leaderboard.leaderboard :
                  leaderboard.leaderboard[i].userId = subs[k].userId
        /\ \A i \in DOMAIN leaderboard.leaderboard :
              leaderboard.leaderboard[i].totalScore =
                  SumBest(leaderboard.leaderboard[i].userId, LeaderboardQuestionIds)

\* a leaderboard was served where a user's positive-scoring submission is
\* scanned after a better one of the same question
WitnessBestScore ==
    /\ leaderboard.code = 200
    /\ \E j \in DOMAIN subs, k \in DOMAIN subs :
          /\ subs[j].submittedAt < subs[k].submittedAt
          /\ subs[j].userId = subs[k].userId
          /\ subs[j].questionId = subs[k].questionId
          /\ 0 < subs[j].marksAwarded
          /\ subs[j].marksAwarded < subs[k].marksAwarded

\* C8: adjacent leaderboard entries a, b are ordered by totalScore descending,
\* then problemsSolved descending, then totalTime ascending.
LeaderboardOrder ==
    leaderboard.code = 200 =>
        \A i \in 1..(Len(leaderboard.leaderboard) - 1) :
            LET a == leaderboard.leaderboard[i]
                b == leaderboard.leaderboard[i + 1]
            IN  \/ a.totalScore > b.totalScore
                \/ a.totalScore = b.totalScore /\ a.problemsSolved > b.problemsSolved
                \/ /\ a.totalScore = b.totalScore
                   /\ a.problemsSolved = b.problemsSolved
                   /\ a.totalTime <= b.totalTime

\* a leaderboard was served where the first tie-break decides: the user whose
\* submissions were scanned first has the same score with fewer problems solved
WitnessOrderTieBreak ==
    /\ leaderboard.code = 200
    /\ Len(leaderboard.leaderboard) = 2
    /\ leaderboard.leaderboard[1].totalScore = leaderboard.leaderboard[2].totalScore
    /\ leaderboard.leaderboard[1].problemsSolved
           > leaderboard.leaderboard[2].problemsSolved
    /\ leaderboard.leaderboard[1].lastSubmission
           > leaderboard.leaderboard[2].lastSubmission

\* the same submissions inserted in another order: p is a permutation of
\* their indices, submittedAt follows the insertion
InsertionOrders(n) ==
    {p \in [1..n -> 1..n] : \A i \in 1..n, j \in 1..n : p[i] = p[j] => i = j}

Reinserted(p) ==
    [k \in DOMAIN subs |-> [subs[p[k]] EXCEPT !.submittedAt = k]]

EntryKey(entry) == <<entry.totalScore, entry.problemsSolved, entry.totalTime>>

\* C9 as claimed: for the same set of submissions the leaderboard lists the
\* users in the same sequence whatever the order of insertion and scan.
LeaderboardSameUserSequence ==
    leaderboard.code = 200 =>
        \A p \in InsertionOrders(Len(subs)) :
            LET other == buildLeaderboard(Reinserted(p), contest.questions)
            IN  [i \in DOMAIN other |-> other[i].userId]
                  = [i \in DOMAIN leaderboard.leaderboard |->
                        leaderboard.leaderboard[i].userId]

\* C9 amended: whatever the order of insertion and scan, the leaderboard has
\* the same (totalScore, problemsSolved, totalTime) at every position, and
\* the same user there unless another entry has the same three values.
LeaderboardSameUpToTies ==
    leaderboard.code = 200 =>
        \A p \in InsertionOrders(Len(subs)) :
            LET this == leaderboard.leaderboard
                other == buildLeaderboard(Reinserted(p), contest.questions)
            IN  /\ Len(other) = Len(this)
                /\ \A i \in DOMAIN this :
                      /\ EntryKey(other[i]) = EntryKey(this[i])
                      /\ other[i].userId # this[i].userId
                            => \E j \in DOMAIN this :
                                  j # i /\ EntryKey(this[j]) = EntryKey(this[i])

\* a leaderboard was served for several submissions of two users who differ
\* in totalScore, one of them with two submissions of the same question
WitnessSameUpToTies ==
    /\ leaderboard.code = 200
    /\ Len(subs) = MaxSubs
    /\ Len(leaderboard.leaderboard) = 2
    /\ leaderboard.leaderboard[1].totalScore > leaderboard.leaderboard[2].totalScore
    /\ \E j \in DOMAIN subs, k \in DOMAIN subs :
          /\ j # k
          /\ subs[j].userId = subs[k].userId
          /\ subs[j].questionId = subs[k].questionId
          /\ subs[j].marksAwarded # subs[k].marksAwarded


\* the responses of the checks that precede the creation of the Submission
RejectionErrors ==
    { "All fields are required", "Contest not found", "Question not found",
      "Contest is not accessible", "Contest has not started yet",
      "Programming language not allowed for this contest",
      "Maximum submission attempts reached" }

Rejected(response) ==
    response.code \in {400, 403, 404} /\ response.error \in RejectionErrors

\* C11: a submit request that fails a pre-creation check is answered from a
\* position before the creation of its Submission (so before any call of the
\* Runtime Invoker), and the step that rejects it leaves every Submission
\* record as it was: none created, none modified.
RejectedSubmitChangesNothing ==
    [][\A r \in Reqs :
          resp[r] = NoResp /\ Rejected(resp'[r])
              => /\ subs' = subs
                 /\ req[r].pc \in {"idle", "loadContest", "count"}
                 /\ req[r].sid = 0
                 /\ req'[r].pc = "done"]_vars

\* a submit request was rejected for the attempt limit while the Submission
\* of the user's earlier attempt is stored
WitnessRejectedAtLimit ==
    \E r \in Reqs :
        /\ Rejected(resp[r])
        /\ resp[r].error = "Maximum submission attempts reached"
        /\ Len(subs) = 1


\* C12: the submit response is sent only once the created Submission is
\* persisted with a terminal status, and the status it reports is the
\* persisted status, also when an operation of processSubmission's error
\* handler faults.
ResponseReportsPersistedStatus ==
    \A r \in Reqs :
        resp[r].code = 201
            => /\ subs[resp[r].submissionId].status \in {"completed", "error"}
               /\ resp[r].status = subs[resp[r].submissionId].status

\* C13: when control leaves the catch block of processSubmission (entered on
\* a fault outside the per-test-case try), the Submission is persisted with
\* status error, the fault message and no results; it is never left pending
\* or running.
GradingFaultPersistsError ==
    [][\A r \in Reqs :
          /\ req[r].pc \in {"catchLoad", "catchSave"}
          /\ req'[r].pc \notin {"catchLoad", "catchSave"}
          => /\ subs'[req[r].sid].status = "error"
             /\ subs'[req[r].sid].compilationError = req[r].error
             /\ subs'[req[r].sid].compilationError # ""
             /\ subs'[req[r].sid].testCaseResults = <<>>]_vars


\* the test cases that Submission k was graded on
GradedTestCases(k) == questionsId(contest.questions, subs[k].questionId).testCases

\* the persisted result records a dispatcher call that returned success (no
\* error message) with the expected output, up to trimming
RecordsCorrectRun(testCaseResult, testCase) ==
    /\ testCaseResult.error = ""
    /\ trim(testCaseResult.output) = trim(testCase.expectedOutput)

\* C14: a grading run whose dispatcher calls all return success with the
\* expected output (after trimming) ends completed with every result passed,
\* marksAwarded and totalMarks both the sum of the test case marks, and
\* scorePercentage 100 when that sum is positive.
AllCorrectScenario ==
    \A k \in DOMAIN subs :
        subs[k].status = "completed"
            => /\ Len(subs[k].testCaseResults) = Len(GradedTestCases(k))
               /\ (\A i \in DOMAIN GradedTestCases(k) :
                       RecordsCorrectRun(subs[k].testCaseResults[i],
                                         GradedTestCases(k)[i]))
                    => /\ \A i \in DOMAIN subs[k].testCaseResults :
                             subs[k].testCaseResults[i].status = "passed"
                       /\ subs[k].marksAwarded = SumOver(GradedTestCases(k), "marks")
                       /\ subs[k].totalMarks = SumOver(GradedTestCases(k), "marks")
                       /\ SumOver(GradedTestCases(k), "marks") > 0
                             => subs[k].scorePercentage = 100

\* a Submission completed with two test cases of positive marks, one of them
\* hidden, both run correctly, one with output that matches only once trimmed
WitnessAllCorrect ==
    \E k \in DOMAIN subs :
        /\ subs[k].status = "completed"
        /\ Len(subs[k].testCaseResults) = 2
        /\ \A i \in 1..2 :
              /\ RecordsCorrectRun(subs[k].testCaseResults[i], GradedTestCases(k)[i])
              /\ GradedTestCases(k)[i].marks > 0
        /\ \E i \in 1..2 : GradedTestCases(k)[i].isHidden
        /\ \E i \in 1..2 :
              subs[k].testCaseResults[i].output # GradedTestCases(k)[i].expectedOutput
        /\ subs[k].scorePercentage = 100


\* the persisted result records a dispatcher call that returned success (no
\* error message) with an output other than the expected one
RecordsWrongRun(testCaseResult, testCase) ==
    /\ testCaseResult.error = ""
    /\ trim(testCaseResult.output) # trim(testCase.expectedOutput)

\* C15: a grading run whose dispatcher calls all return success with a wrong
\* output ends completed with every result failed, marksAwarded 0 and
\* scorePercentage 0; whatever the verdicts, a Submission persisted with
\* results is completed, and status error comes only with a fault message and
\* no results.
WrongAnswersAreGraded ==
    \A k \in DOMAIN subs :
        /\ subs[k].testCaseResults # <<>> => subs[k].status = "completed"
        /\ subs[k].status = "error"
              => subs[k].testCaseResults = <<>> /\ subs[k].compilationError # ""
        /\ subs[k].status = "completed"
              => /\ Len(subs[k].testCaseResults) = Len(GradedTestCases(k))
                 /\ (\A i \in DOMAIN GradedTestCases(k) :
                         RecordsWrongRun(subs[k].testCaseResults[i],
                                         GradedTestCases(k)[i]))
                      => /\ \A i \in DOMAIN subs[k].testCaseResults :
                               subs[k].testCaseResults[i].status = "failed"
                         /\ subs[k].marksAwarded = 0
                         /\ subs[k].scorePercentage = 0

\* a Submission completed with two test cases of positive marks, both run
\* with a wrong output, one of them the empty output
WitnessAllWrong ==
    \E k \in DOMAIN subs :
        /\ subs[k].status = "completed"
        /\ Len(subs[k].testCaseResults) = 2
        /\ \A i \in 1..2 :
              /\ RecordsWrongRun(subs[k].testCaseResults[i], GradedTestCases(k)[i])
              /\ GradedTestCases(k)[i].marks > 0
        /\ \E i \in 1..2 : subs[k].testCaseResults[i].output = <<>>


\* submit request r has passed the accessibility checks of the handler
PassedAccessibility(r) ==
    \/ req[r].pc \notin {"idle", "loadContest", "done"}
    \/ resp[r].code = 201
    \/ /\ resp[r].code \in {400, 403}
       /\ resp[r].error \in {"Programming language not allowed for this contest",
                              "Maximum submission attempts reached"}

\* C16: the contest window is half-open: a submit request passes the
\* accessibility checks only if the contest isActive and
\* startTime <= now < endTime, and is turned away as not accessible or not
\* started only outside of that.
ContestWindowHalfOpen ==
    \A r \in Reqs :
        /\ PassedAccessibility(r)
              => /\ contest.isActive
                 /\ contest.startTime <= now
                 /\ now < contest.endTime
        /\ (resp[r].code = 403
              /\ resp[r].error \in {"Contest is not accessible",
                                     "Contest has not started yet"})
              => ~(contest.isActive /\ contest.startTime <= now
                                    /\ now < contest.endTime)


\* C17: the scorePercentage of every persisted Submission, whatever its
\* status, is an integer from 0 to 100.
ScorePercentageRange ==
    \A k \in DOMAIN subs : subs[k].scorePercentage \in 0..100

\* a Submission completed with part of the marks, its percentage rounded
\* from a fraction (1 of 8 or 7 of 8 marks)
WitnessPartialScore ==
    \E k \in DOMAIN subs :
        /\ subs[k].status = "completed"
        /\ subs[k].scorePercentage \in {13, 88}
        /\ SumOver(subs[k].testCaseResults, "maxMarks") = 8


\* C18: a completed Submission's persisted marksAwarded is the sum of
\* marksAwarded over its persisted results, and each result carries the
\* marks of its test case as maxMarks, awarded in full if it passed and not
\* at all otherwise.
CompletedMarksAwarded ==
    \A k \in DOMAIN subs :
        subs[k].status = "completed"
            => /\ subs[k].marksAwarded = SumOver(subs[k].testCaseResults, "marksAwarded")
               /\ Len(subs[k].testCaseResults) = Len(GradedTestCases(k))
               /\ \A i \in DOMAIN subs[k].testCaseResults :
                     /\ subs[k].testCaseResults[i].maxMarks = GradedTestCases(k)[i].marks
                     /\ subs[k].testCaseResults[i].marksAwarded =
                           IF subs[k].testCaseResults[i].status = "passed"
                           THEN subs[k].testCaseResults[i].maxMarks
                           ELSE 0

\* a Submission completed with a passed result of positive marks and a
\* result of positive marks that did not pass
WitnessMixedVerdicts ==
    \E k \in DOMAIN subs :
        /\ subs[k].status = "completed"
        /\ \E i \in DOMAIN subs[k].testCaseResults :
              /\ subs[k].testCaseResults[i].status = "passed"
              /\ subs[k].testCaseResults[i].maxMarks > 0
        /\ \E i \in DOMAIN subs[k].testCaseResults :
              /\ subs[k].testCaseResults[i].status # "passed"
              /\ subs[k].testCaseResults[i].maxMarks > 0
        /\ subs[k].marksAwarded > 0


\* the languages that executeCode dispatches to the Runtime Invoker
SupportedLanguages == {"python"} \cup DOMAIN compilexLang

\* the test case whose Outcome request r holds, and the result made of it
ClassifiedTestCase(r) ==
    IF req[r].pc = "finalSave"
    THEN req[r].question.testCases[Len(req[r].question.testCases)]
    ELSE req[r].question.testCases[req[r].i - 1]

ClassifiedResult(r) ==
    IF req[r].pc = "finalSave"
    THEN req[r].submission.testCaseResults[Len(req[r].submission.testCaseResults)]
    ELSE req[r].testCaseResults[req[r].i - 1]

\* C19: an execute call on a supported language whose measured time is
\* greater than timeLimit returns status timeout with the time-limit message,
\* whether the invoker reported an error or an output.
DispatcherTimeoutPolicy ==
    \A r \in Reqs :
        /\ req[r].result.status # "none"
        /\ req[r].language \in SupportedLanguages
        /\ req[r].result.executionTime > req[r].question.timeLimit
        => /\ req[r].result.status = "timeout"
           /\ req[r].result.error = "Time limit exceeded"

Verdicts == {"passed", "failed", "runtime_error", "time_limit_exceeded"}

\* C20: the verdict is a function of the dispatcher Outcome: passed iff
\* success with equal trimmed outputs, time_limit_exceeded iff timeout,
\* runtime_error iff error, failed iff success with different trimmed
\* outputs; each test case gets one verdict, never memory_limit_exceeded.
VerdictClassification ==
    /\ \A r \in Reqs :
          /\ req[r].pc = "exec" => Len(req[r].testCaseResults) = req[r].i - 1
          /\ req[r].result.status # "none"
                => LET result == req[r].result
                       verdict == ClassifiedResult(r).status
                       sameOutput ==
                           trim(result.output)
                               = trim(ClassifiedTestCase(r).expectedOutput)
                   IN  /\ verdict \in Verdicts
                       /\ verdict = "passed"
                             <=> (result.status = "success" /\ sameOutput)
                       /\ verdict = "time_limit_exceeded"
                             <=> result.status = "timeout"
                       /\ verdict = "runtime_error" <=> result.status = "error"
                       /\ verdict = "failed"
                             <=> (result.status = "success" /\ ~sameOutput)
    /\ \A k \in DOMAIN subs :
          \A i \in DOMAIN subs[k].testCaseResults :
              subs[k].testCaseResults[i].status \in Verdicts

\* javascript code was run on the hidden test case, after the visible one:
\* the dispatcher timed out although the output, once trimmed, is the
\* expected one, and the verdict is time_limit_exceeded
WitnessTimeoutVerdict ==
    \E r \in Reqs :
        /\ req[r].language = "javascript"
        /\ req[r].pc = "finalSave"
        /\ req[r].result.status = "timeout"
        /\ trim(req[r].result.output) = trim(ClassifiedTestCase(r).expectedOutput)
        /\ req[r].result.output # ClassifiedTestCase(r).expectedOutput
        /\ ClassifiedResult(r).status = "time_limit_exceeded"


\* the result of a test case whose dispatcher call threw is that of the
\* per-test-case catch block: runtime_error, no marks, maxMarks its marks
IsolatedFault(testCaseResult, testCase) ==
    /\ testCaseResult.testCaseId = testCase.id
    /\ testCaseResult.error = "invoker fault"
          => /\ testCaseResult.status = "runtime_error"
             /\ testCaseResult.marksAwarded = 0
             /\ testCaseResult.maxMarks = testCase.marks

\* C21: a test case whose dispatcher call throws gets a runtime_error
\* result with marksAwarded 0 and maxMarks its marks, its marks count in the
\* totalMarks denominator, and grading goes on with the next test cases: the
\* results are one per test case, in the question's order.
FaultIsolation ==
    /\ \A r \in Reqs :
          LET q == req[r]
              testCases == q.question.testCases
          IN  /\ q.pc = "exec"
                    => /\ Len(q.testCaseResults) = q.i - 1
                       /\ q.totalMarks = SumOver(SubSeq(testCases, 1, q.i - 1), "marks")
                       /\ \A j \in 1..(q.i - 1) :
                              IsolatedFault(q.testCaseResults[j], testCases[j])
              /\ q.pc = "finalSave"
                    => /\ Len(q.submission.testCaseResults) = Len(testCases)
                       /\ q.submission.totalMarks = SumOver(testCases, "marks")
                       /\ q.submission.scorePercentage =
                              scorePercentage(q.submission.marksAwarded,
                                              SumOver(testCases, "marks"))
                       /\ \A j \in DOMAIN testCases :
                              IsolatedFault(q.submission.testCaseResults[j],
                                            testCases[j])
    /\ \A k \in DOMAIN subs :
          subs[k].status = "completed"
              => /\ Len(subs[k].testCaseResults) = Len(GradedTestCases(k))
                 /\ \A j \in DOMAIN subs[k].testCaseResults :
                        IsolatedFault(subs[k].testCaseResults[j],
                                      GradedTestCases(k)[j])
                 /\ subs[k].scorePercentage =
                        scorePercentage(subs[k].marksAwarded,
                                        SumOver(GradedTestCases(k), "marks"))

\* a Submission completed after the dispatcher call of its first test case
\* (7 marks) threw and the second test case (1 mark) passed: 1 of 8 marks
WitnessFaultThenPass ==
    \E k \in DOMAIN subs :
        /\ subs[k].status = "completed"
        /\ Len(subs[k].testCaseResults) = 2
        /\ subs[k].testCaseResults[1].error = "invoker fault"
        /\ subs[k].testCaseResults[1].maxMarks = 7
        /\ subs[k].testCaseResults[2].status = "passed"
        /\ subs[k].marksAwarded = 1
        /\ subs[k].scorePercentage = 13


\* C22: grading invokes the dispatcher once per test case of the question,
\* hidden or not, in the question's order and one at a time: the call for
\* test case i + 1 is issued by the step that takes the return (or throw) of
\* the call for test case i, the loop is left only after the last test case,
\* and no verdict of an earlier test case makes it skip one.
SequentialFullSuite ==
    [][\A r \in Reqs :
          LET q == req[r]
              suite == questionsId(contest.questions, q.questionId).testCases
          IN  /\ q.pc = "saveRunning" /\ req'[r].pc = "exec"
                    => req'[r].i = 1 /\ req'[r].question.testCases = suite
              /\ q.pc = "saveRunning" /\ req'[r].pc = "finalSave" => suite = <<>>
              /\ q.pc = "exec" /\ req'[r] # q
                    => /\ q.question.testCases = suite
                       /\ Len(q.testCaseResults) = q.i - 1
                       /\ IF q.i < Len(suite)
                          THEN /\ req'[r].pc = "exec"
                               /\ req'[r].i = q.i + 1
                               /\ Len(req'[r].testCaseResults) = q.i
                               /\ req'[r].testCaseResults[q.i].testCaseId
                                      = suite[q.i].id
                          ELSE /\ req'[r].pc = "finalSave"
                               /\ Len(req'[r].submission.testCaseResults) = Len(suite)
                               /\ req'[r].submission.testCaseResults[q.i].testCaseId
                                      = suite[q.i].id]_vars

\* the call for a hidden second test case is in flight after the call for
\* the first test case ended with a timeout
WitnessHiddenAfterTimeout ==
    \E r \in Reqs :
        /\ req[r].pc = "exec"
        /\ req[r].i = 2
        /\ req[r].question.testCases[2].isHidden
        /\ req[r].testCaseResults[1].status = "time_limit_exceeded"


\* the rejection that the claimed order of the pre-creation checks gives a
\* request at the moment Contest.findById answers: contest exists and is
\* accessible (active, not ended), question exists, contest has started,
\* language allowed ("" when all of these pass)
ClaimedRejection(q) ==
    IF q.contestId # contest.id
    THEN "Contest not found"
    ELSE IF ~contest.isActive \/ contest.endTime < now
    THEN "Contest is not accessible"
    ELSE IF questionsId(contest.questions, q.questionId) = NoQuestion
    THEN "Question not found"
    ELSE IF contest.startTime > now
    THEN "Contest has not started yet"
    ELSE IF q.language \notin contest.allowedLanguages
    THEN "Programming language not allowed for this contest"
    ELSE ""

\* C23: when several pre-creation checks are violated at once the rejection
\* reported is that of the earliest in the order: contest exists and is
\* accessible, question exists, contest has started, language allowed,
\* attempts left.
RejectionFollowsClaimedOrder ==
    [][\A r \in Reqs :
          /\ req[r].pc = "loadContest" /\ Rejected(resp'[r])
                => resp'[r].error = ClaimedRejection(req[r])
          /\ req[r].pc = "loadContest" /\ req'[r].pc = "count"
                => ClaimedRejection(req[r]) = ""
          /\ req[r].pc = "count" /\ Rejected(resp'[r])
                => resp'[r].error = "Maximum submission attempts reached"]_vars


\* C24: each entry's problemsSolved is the number of questions for which the
\* user's best marksAwarded is positive, however many submissions the user
\* has for a question and in whatever order they are scanned.
LeaderboardProblemsSolved ==
    leaderboard.code = 200 =>
        \A i \in DOMAIN leaderboard.leaderboard :
            leaderboard.leaderboard[i].problemsSolved =
                Cardinality({q \in LeaderboardQuestionIds :
                                BestMarks(leaderboard.leaderboard[i].userId, q) > 0})

\* a leaderboard was served for a user with two positive-scoring submissions
\* of one question, the better one scanned second (submitted first)
WitnessSolvedOnce ==
    /\ leaderboard.code = 200
    /\ \E j \in DOMAIN subs, k \in DOMAIN subs :
          /\ subs[j].submittedAt < subs[k].submittedAt
          /\ subs[j].userId = subs[k].userId
          /\ subs[j].questionId = subs[k].questionId
          /\ 0 < subs[k].marksAwarded
          /\ subs[k].marksAwarded < subs[j].marksAwarded
          /\ \E i \in DOMAIN leaderboard.leaderboard :
                /\ leaderboard.leaderboard[i].userId = subs[j].userId
                /\ leaderboard.leaderboard[i].problemsSolved = 1


RECURSIVE SumExecutionTime(_)
\* the sum of executionTime over the submissions with the given indices
SumExecutionTime(indices) ==
    IF indices = {}
    THEN 0
    ELSE LET k == CHOOSE x \in indices : TRUE
         IN  subs[k].executionTime + SumExecutionTime(indices \ {k})

SubmissionsOf(userId) == {k \in DOMAIN subs : subs[k].userId = userId}

\* C25: each entry's totalTime is the sum of executionTime over all of the
\* user's submissions in the contest, improving or not.
LeaderboardTotalTimeAll ==
    leaderboard.code = 200 =>
        \A i \in DOMAIN leaderboard.leaderboard :
            leaderboard.leaderboard[i].totalTime =
                SumExecutionTime(SubmissionsOf(leaderboard.leaderboard[i].userId))

\* a leaderboard was served for a user with a submission that took time and
\* scored nothing, next to one that took time and scored
WitnessTimeOfScoreless ==
    /\ leaderboard.code = 200
    /\ \E j \in DOMAIN subs, k \in DOMAIN subs :
          /\ subs[j].userId = subs[k].userId
          /\ subs[j].marksAwarded = 0 /\ subs[j].executionTime = 1
          /\ subs[k].marksAwarded > 0 /\ subs[k].executionTime = 1
          /\ \E i \in DOMAIN leaderboard.leaderboard :
                /\ leaderboard.leaderboard[i].userId = subs[j].userId
                /\ leaderboard.leaderboard[i].totalTime >= 2

\* submission k improves its user's score for its question when it is
\* scanned: it has more marks than every submission of the same user and
\* question scanned before it (submitted after it), and more than 0
Improves(k) ==
    /\ subs[k].marksAwarded > 0
    /\ \A j \in DOMAIN subs :
          /\ subs[j].userId = subs[k].userId
          /\ subs[j].questionId = subs[k].questionId
          /\ subs[j].submittedAt > subs[k].submittedAt
          => subs[j].marksAwarded < subs[k].marksAwarded

\* C26 as claimed: each entry's totalTime is the sum of executionTime over
\* only the submissions that improve one of the user's per-question scores.
LeaderboardTotalTimeImproving ==
    leaderboard.code = 200 =>
        \A i \in DOMAIN leaderboard.leaderboard :
            leaderboard.leaderboard[i].totalTime =
                SumExecutionTime({k \in SubmissionsOf(leaderboard.leaderboard[i].userId) :
                                     Improves(k)})

\* C26 amended: each entry's totalTime is the sum of executionTime over the
\* submissions that improve one of the user's per-question scores plus the
\* executionTime of every submission of the user that improves none.
LeaderboardTotalTimeBothKinds ==
    leaderboard.code = 200 =>
        \A i \in DOMAIN leaderboard.leaderboard :
            leaderboard.leaderboard[i].totalTime =
                SumExecutionTime({k \in SubmissionsOf(leaderboard.leaderboard[i].userId) :
                                     Improves(k)})
                + SumExecutionTime({k \in SubmissionsOf(leaderboard.leaderboard[i].userId) :
                                       ~Improves(k)})

\* a leaderboard was served for a user with an improving submission and,
\* scanned after it, a submission of the same question with fewer positive
\* marks, both taking time
WitnessTimeOfNonImproving ==
    /\ leaderboard.code = 200
    /\ \E j \in DOMAIN subs, k \in DOMAIN subs :
          /\ subs[j].userId = subs[k].userId
          /\ subs[j].questionId = subs[k].questionId
          /\ Improves(k) /\ subs[k].executionTime = 1
          /\ ~Improves(j) /\ subs[j].marksAwarded > 0 /\ subs[j].executionTime = 1
          /\ \E i \in DOMAIN leaderboard.leaderboard :
                /\ leaderboard.leaderboard[i].userId = subs[j].userId
                /\ leaderboard.leaderboard[i].totalTime >= 2

RECURSIVE LatestSubmittedAt(_)
\* the maximum submittedAt over the submissions with the given indices
LatestSubmittedAt(indices) ==
    LET k == CHOOSE x \in indices : TRUE
    IN  IF indices = {k}
        THEN subs[k].submittedAt
        ELSE LET rest == LatestSubmittedAt(indices \ {k})
             IN  IF subs[k].submittedAt > rest THEN subs[k].submittedAt ELSE rest

\* C27: each entry's lastSubmission is the latest submittedAt among the
\* user's submissions in the contest.
LeaderboardLastSubmission ==
    leaderboard.code = 200 =>
        \A i \in DOMAIN leaderboard.leaderboard :
            leaderboard.leaderboard[i].lastSubmission =
                LatestSubmittedAt(SubmissionsOf(leaderboard.leaderboard[i].userId))


\* C28: a persisted Submission with status pending, running or error has no
\* testCaseResults, marksAwarded 0 and scorePercentage 0; one with status
\* completed has as many testCaseResults as the question had test cases when
\* the submit request read it.
StatusResultConsistency ==
    \A k \in DOMAIN subs :
        /\ subs[k].status \in {"pending", "running", "completed", "error"}
        /\ subs[k].status \in {"pending", "running", "error"}
              => /\ subs[k].testCaseResults = <<>>
                 /\ subs[k].marksAwarded = 0
                 /\ subs[k].scorePercentage = 0
        /\ subs[k].status = "completed"
              => Len(subs[k].testCaseResults) = Len(GradedTestCases(k))

\* a Submission is persisted as running while its request holds results of
\* test cases already graded, with marks obtained
WitnessRunningMidLoop ==
    \E r \in Reqs :
        /\ req[r].pc = "exec"
        /\ req[r].i = 2
        /\ req[r].obtainedMarks > 0
        /\ subs[req[r].sid].status = "running"


\* C29: with an invoker that answers every invocation and persistence that
\* succeeds, every submit request gets a response and every created
\* Submission reaches completed or error; while a request waits for the
\* invoker its Submission stays persisted as running with no results, a
\* timeout Outcome is produced only by an answer that came after timeLimit,
\* and the request moves on only by taking the result of that invocation.
GradingTerminates ==
    /\ \A r \in Reqs : (req[r].pc \notin {"idle", "done"}) ~> (resp[r] # NoResp)
    /\ \A r \in Reqs :
          (req[r].sid # 0)
              ~> (/\ resp[r].code = 201
                  /\ subs[resp[r].submissionId].status \in {"completed", "error"})
    /\ [](\A r \in Reqs :
             /\ req[r].pc = "exec"
                   => /\ subs[req[r].sid].status = "running"
                      /\ subs[req[r].sid].testCaseResults = <<>>
             /\ req[r].result.status = "timeout"
                   => req[r].result.executionTime > req[r].question.timeLimit)
    /\ [][\A r \in Reqs :
             req[r].pc = "exec" /\ req'[r] # req[r]
                 => \/ /\ req'[r].pc = "exec"
                       /\ req'[r].i = req[r].i + 1
                       /\ Len(req'[r].testCaseResults) = req[r].i
                    \/ /\ req'[r].pc = "finalSave"
                       /\ Len(req'[r].submission.testCaseResults) = req[r].i]_vars

\* a submit request was answered with a completed Submission whose two test
\* cases both ran past the time limit
WitnessAnsweredAfterTimeouts ==
    \E r \in Reqs :
        /\ resp[r].code = 201
        /\ resp[r].status = "completed"
        /\ Len(resp[r].testResults) = 2
        /\ \A i \in 1..2 : resp[r].testResults[i].status = "time_limit_exceeded"

\* ------------------------------------------------------------------- C30
\* the positions of a run request
RunPositions == {"runLoad", "runExec", "runCustom"}

\* request r takes a step of the run handler
RunStep(r) ==
    /\ req'[r] # req[r] \/ resp'[r] # resp[r]
    /\ \/ req[r].pc \in RunPositions
       \/ req'[r].pc \in RunPositions
       \/ resp'[r] = [code |-> 400, error |-> "Code and language are required"]

\* C30: a run request never creates or modifies a Submission (no step of the
\* run handler changes the stored submissions), and when a question is
\* targeted the test case whose execution is pending is always one of the
\* question's test cases with isHidden false; the answer reports exactly the
\* question's non-hidden test cases.
RunIsNonScored ==
    /\ [][\A r \in Reqs : RunStep(r) => subs' = subs]_vars
    /\ [](\A r \in Reqs :
             req[r].pc = "runExec" =>
                 LET testCase == req[r].visibleTestCases[req[r].i]
                     question == questionsId(contest.questions, req[r].questionId)
                 IN  /\ ~testCase.isHidden
                     /\ \E j \in DOMAIN question.testCases :
                            question.testCases[j] = testCase
                     /\ Len(req[r].visibleTestCases) =
                            Cardinality({j \in DOMAIN question.testCases :
                                            ~question.testCases[j].isHidden}))
    /\ [](\A r \in Reqs :
             (resp[r].code = 200 /\ "testResults" \in DOMAIN resp[r]) =>
                 /\ Len(resp[r].testResults) = resp[r].totalVisible
                 /\ resp[r].totalVisible = 1)

\* a run on the question whose hidden test case comes first is answered with
\* the one visible test case passed, while a graded Submission is stored
WitnessRunSkipsHidden ==
    \E r \in Reqs :
        /\ resp[r].code = 200
        /\ "testResults" \in DOMAIN resp[r]
        /\ resp[r].passedVisible = 1
        /\ resp[r].testResults[1].marks = 7
        /\ Len(subs) = 1
        /\ subs[1].status = "completed"
        /\ subs[1].questionId = 2
        /\ Len(subs[1].testCaseResults) = 2
====
